---- MODULE Spec2Model ----
(***************************************************************************)
(* mDNS reflector (sugtao4423/mDNS-Reflector): the deduplication cache,    *)
(* construction and startup of the reflector, the per-interface receive    *)
(* loops, the reflection fan-out and the shutdown sequence.                *)
(*                                                                         *)
(* Three specifications share the variables:                               *)
(*   SpecDedup  the dedup cache alone, driven by isDuplicate calls, the    *)
(*              sweep and the clock;                                       *)
(*   SpecNew    NewReflector applied to every bounded interface name list; *)
(*   Spec       one constructed reflector: Start, receive loops,           *)
(*              reflection tasks and Stop, interleaved.                    *)
(* Timers (read deadline, shutdown timeout, sweep ticker) may fire at any  *)
(* moment; the clock is used only where the code reads time.Now().         *)
(***************************************************************************)
EXTENDS Integers, Sequences, FiniteSets, TLC

\* ------------------------------------------------------------------ bounds

\* Clock ticks per second: the resolution of the modelled clock.
Second == 2
\* The clock runs from 0 to MaxTime ticks.
MaxTime == 5
\* isDuplicate calls made in one run of SpecDedup.
MaxCalls == 3
\* Longest interface name list given to NewReflector in SpecNew.
MaxNames == 3
\* Packets read from the sockets in one run of Spec, over all loops.
MaxPackets == 2
\* Stop calls in one run of Spec (Start's own call on a join error included).
MaxStops == 2
\* Socket errors in one run of Spec: failed writes and fatal read errors on
\* open sockets.
MaxFaults == 1

\* ------------------------------------------------------- names and payloads

\* Interface names known to the host, with the bytes of each name
\* ([]byte(srcIface)): eth1 is a prefix of eth10.
NameBytes ==
  [ eth1  |-> <<101, 116, 104, 49>>,
    eth10 |-> <<101, 116, 104, 49, 48>>,
    wlan0 |-> <<119, 108, 97, 110, 48>> ]

UpNames == DOMAIN NameBytes

\* UDP payloads, as byte sequences.
Payloads == { <<48, 7>>, <<7>> }

Pairs == UpNames \X Payloads

\* ------------------------------------------------------------ hash/fnv 64a

RECURSIVE XorBits(_, _, _)
XorBits(a, b, n) ==
  IF n = 0 THEN 0
  ELSE (((a % 2) + (b % 2)) % 2) + 2 * XorBits(a \div 2, b \div 2, n - 1)

XorByte(a, b) == XorBits(a, b, 8)

\* The 64-bit state of the hash as 8 bytes, least significant first.
fnvOffset64 == <<37, 35, 34, 132, 228, 156, 242, 203>>

\* h * 0x100000001B3 mod 2^64, on the 8 bytes of h: 0x1B3 = 435, and the
\* 2^40 term adds byte i-5 at byte i.
RECURSIVE MulPrimeFrom(_, _, _)
MulPrimeFrom(h, i, carry) ==
  IF i > 8 THEN <<>>
  ELSE LET v == (h[i] * 435) + (IF i > 5 THEN h[i - 5] ELSE 0) + carry
       IN  <<v % 256>> \o MulPrimeFrom(h, i + 1, v \div 256)

MulPrime(h) == MulPrimeFrom(h, 1, 0)

RECURSIVE fnvWrite(_, _)
fnvWrite(h, bytes) ==
  IF bytes = <<>> THEN h
  ELSE fnvWrite(MulPrime([h EXCEPT ![1] = XorByte(h[1], Head(bytes))]),
                Tail(bytes))

fnv64a(bytes) == fnvWrite(fnvOffset64, bytes)

\* ------------------------------------------------------------- dedupCache

dedupWindow == 1 * Second

\* Mutant of HashInput: the interface name is left out of the hash.
HashInputNoIface(srcIface, packet) == packet

\* The bytes hashed for (srcIface, packet): the two h.Write calls.
HashInput(srcIface, packet) == NameBytes[srcIface] \o packet

\* The keys of all (interface, payload) pairs, computed once (@@ makes the
\* table an explicit function instead of a rule re-evaluated at each use).
KeyTable ==
  [p \in Pairs |-> fnv64a(HashInput(p[1], p[2]))] @@ [p \in {} |-> <<>>]

Fingerprint(srcIface, packet) == KeyTable[<<srcIface, packet>>]

\* now.Before(expireAt)
Before(t, expireAt) == t < expireAt

\* Mutant of After: an expiry equal to the sweep time counts as passed.
NotBefore(t, expireAt) == t >= expireAt

\* now.After(expireAt)
After(t, expireAt) == t > expireAt

\* The value isDuplicate returns on cache e at time t.
isDuplicate(e, srcIface, packet, t) ==
  LET key == Fingerprint(srcIface, packet)
  IN  key \in DOMAIN e /\ Before(t, e[key])

\* The cache isDuplicate leaves behind.
isDuplicateEntries(e, srcIface, packet, t) ==
  LET key == Fingerprint(srcIface, packet)
  IN  IF isDuplicate(e, srcIface, packet, t) THEN e
      ELSE [k \in DOMAIN e \cup {key} |->
              IF k = key THEN t + dedupWindow ELSE e[k]]

\* The cache cleanup leaves behind at time t.
cleanup(e, t) ==
  [k \in {x \in DOMAIN e : ~After(t, e[x])} |-> e[k]]

\* ---------------------------------------------------------------- state

VARIABLES
  entries,    \* dedupCache.entries: key -> expiry
  now,        \* the clock read by time.Now()
  ncalls,     \* isDuplicate calls made so far (SpecDedup)
  lastCall,   \* the most recent isDuplicate call and what it did
  window      \* per exact (interface, payload): the expiry the contract
              \* of isDuplicate assigns (reference semantics, not code)

VARIABLES
  stamped,    \* isDuplicate calls that have read time.Now() and wait for
              \* c.mu: interface -> [pkt, at] (SpecSweep)
  sweepAt,    \* cleanup has read time.Now() and waits for c.mu: <<time>>
  unswept,    \* the entries of the same execution without any sweep
  verdict     \* the last isDuplicate result, and the result without sweeps

VARIABLES
  ifaceNames, \* the interface name list given to NewReflector
  newPc,      \* "call" before NewReflector, then "ok" or "failed"
  newErr,     \* the error NewReflector returned ("" for none)
  interfaces  \* r.interfaces: the resolved interfaces, by name, in order

VARIABLES
  cancelled,     \* r.ctx is done
  conns,         \* r.conns: interface name -> socket
  sock,          \* every socket opened: id -> [iface, open, closes]
  mainPc,        \* where the caller of Start and Stop stands
  joinIdx,       \* Start: index of the next interface to join
  stopCalls,     \* Stop calls made so far
  startFailed,   \* Start hit a join error (and returns it after its Stop)
  drainTimedOut, \* the current Stop gave up waiting for reflections
  muWriter,      \* r.mu is held exclusively (by Stop)
  readers        \* the reflection tasks holding r.mu shared

VARIABLES
  loopPc,     \* receive loop of interfaces[i]: its position
  loopConn,   \* the socket the loop looked up (0: nil)
  loopBuf,    \* the bytes of buf[:n] after the last read
  received,   \* packets read so far, over all loops
  fresh,      \* packets isDuplicate reported as not duplicate, over all loops
  faults,     \* socket errors so far: failed writes and fatal read errors
  tasks,      \* reflection tasks, in scheduling order
  sweeperPc   \* the runCleanup goroutine: "idle", "run" or "done"

sweepVars == <<stamped, sweepAt, unswept, verdict>>
dedupVars == <<entries, now, ncalls, lastCall, window, sweepVars>>
newVars == <<ifaceNames, newPc, newErr, interfaces>>
lifeVars ==
  <<cancelled, conns, sock, mainPc, joinIdx, stopCalls, startFailed,
    drainTimedOut, muWriter, readers>>
loopVars == <<loopPc, loopConn, loopBuf, received, fresh, faults>>
runVars == <<lifeVars, loopVars, tasks, sweeperPc>>

vars == <<dedupVars, newVars, runVars>>

EmptyMap == [k \in {} |-> 0]

NoCall ==
  [iface |-> "eth1", pkt |-> <<>>, at |-> 0, result |-> FALSE, stored |-> 0,
   first |-> FALSE, prior |-> 0, anchor |-> 0]

\* A fresh dedupCache (newDedupCache) and the clock at 0.
InitCache ==
  /\ entries = EmptyMap
  /\ now = 0
  /\ ncalls = 0
  /\ lastCall = NoCall
  /\ window = EmptyMap
  /\ stamped = EmptyMap
  /\ sweepAt = <<>>
  /\ unswept = EmptyMap
  /\ verdict = [result |-> FALSE, reference |-> FALSE]

\* Nothing started: no socket, no goroutine, the context live.
InitIdle ==
  /\ cancelled = FALSE
  /\ conns = EmptyMap
  /\ sock = EmptyMap
  /\ mainPc = "new"
  /\ joinIdx = 1
  /\ stopCalls = 0
  /\ startFailed = FALSE
  /\ drainTimedOut = FALSE
  /\ muWriter = FALSE
  /\ readers = {}
  /\ loopPc = <<>>
  /\ loopConn = <<>>
  /\ loopBuf = <<>>
  /\ received = 0
  /\ fresh = 0
  /\ faults = 0
  /\ tasks = <<>>
  /\ sweeperPc = "idle"

InitDedup ==
  /\ InitCache
  /\ InitIdle
  /\ ifaceNames = <<>>
  /\ newPc = "call"
  /\ newErr = ""
  /\ interfaces = <<>>

\* The contract of isDuplicate on the exact pair: a duplicate while the
\* recorded window of that pair is running, a new window otherwise.
WindowDuplicate(w, pair, t) == pair \in DOMAIN w /\ t < w[pair]

WindowAfter(w, pair, t) ==
  IF WindowDuplicate(w, pair, t) THEN w
  ELSE [p \in DOMAIN w \cup {pair} |->
          IF p = pair THEN t + dedupWindow ELSE w[p]]

\* One call c.isDuplicate(srcIface, packet) at the current time.
IsDuplicateCall(srcIface, packet) ==
  LET pair == <<srcIface, packet>>
      key  == Fingerprint(srcIface, packet)
      e2   == isDuplicateEntries(entries, srcIface, packet, now)
      w2   == WindowAfter(window, pair, now)
  IN  /\ ncalls < MaxCalls
      /\ entries' = e2
      /\ window' = w2
      /\ ncalls' = ncalls + 1
      /\ lastCall' =
           [iface |-> srcIface, pkt |-> packet, at |-> now,
            result |-> isDuplicate(entries, srcIface, packet, now),
            stored |-> e2[key],
            first |-> pair \notin DOMAIN window,
            prior |-> IF pair \in DOMAIN window THEN window[pair] ELSE 0,
            anchor |-> w2[pair]]
      /\ UNCHANGED <<now, sweepVars, newVars, runVars>>

\* One sweep: c.cleanup() at the current time.
Cleanup ==
  /\ entries' = cleanup(entries, now)
  /\ UNCHANGED <<now, ncalls, lastCall, window, sweepVars, newVars, runVars>>

\* Time passes.
Tick ==
  /\ now < MaxTime
  /\ now' = now + 1
  /\ UNCHANGED <<entries, ncalls, lastCall, window, sweepVars, newVars,
                 runVars>>

NextDedup ==
  \/ \E i \in UpNames, p \in Payloads : IsDuplicateCall(i, p)
  \/ Cleanup
  \/ Tick

SpecDedup == InitDedup /\ [][NextDedup]_vars

\* ----------------------------------------------------------- NewReflector

\* The host's interfaces (net.InterfaceByName) with their flags; a name
\* outside the table ("ghost") does not resolve.
HostFlags ==
  [ eth1  |-> [up |-> TRUE,  multicast |-> TRUE],
    eth10 |-> [up |-> TRUE,  multicast |-> TRUE],
    wlan0 |-> [up |-> TRUE,  multicast |-> TRUE],
    down0 |-> [up |-> FALSE, multicast |-> TRUE],
    nomc0 |-> [up |-> TRUE,  multicast |-> FALSE] ]

AllNames == DOMAIN HostFlags \cup {"ghost"}

\* The interface name lists of at most n names.
NameLists(n) == UNION { [1..k -> AllNames] : k \in 0..n }

\* Mutant of CheckInterface: the multicast flag is not looked at.
CheckInterfaceNoMulticast(name) ==
  IF name \notin DOMAIN HostFlags THEN "not found"
  ELSE IF ~HostFlags[name].up THEN "is down"
  ELSE ""

\* The checks made on one name, in the code's order: the error, "" if none.
CheckInterface(name) ==
  IF name \notin DOMAIN HostFlags THEN "not found"
  ELSE IF ~HostFlags[name].up THEN "is down"
  ELSE IF ~HostFlags[name].multicast THEN "does not support multicast"
  ELSE ""

\* The loop over ifaceNames, from position i with acc resolved so far,
\* then the length check: [ok, err, interfaces].
RECURSIVE NewReflectorFrom(_, _, _)
NewReflectorFrom(names, i, acc) ==
  IF i > Len(names)
  THEN IF Len(acc) < 2
       THEN [ok |-> FALSE, err |-> "at least 2 interfaces are required",
             interfaces |-> <<>>]
       ELSE [ok |-> TRUE, err |-> "", interfaces |-> acc]
  ELSE IF CheckInterface(names[i]) # ""
       THEN [ok |-> FALSE, err |-> CheckInterface(names[i]),
             interfaces |-> <<>>]
       ELSE NewReflectorFrom(names, i + 1, Append(acc, names[i]))

NewReflector(names) == NewReflectorFrom(names, 1, <<>>)

\* The call NewReflector(ifaceNames, debug): on an error cancel() has been
\* called and no reflector is returned.
NewReflectorCall ==
  /\ newPc = "call"
  /\ LET r == NewReflector(ifaceNames)
     IN  /\ newPc' = IF r.ok THEN "ok" ELSE "failed"
         /\ newErr' = r.err
         /\ interfaces' = r.interfaces
         /\ cancelled' = ~r.ok
         /\ mainPc' = IF r.ok THEN "constructed" ELSE "none"
  /\ UNCHANGED <<ifaceNames, dedupVars, conns, sock, joinIdx, stopCalls,
                 startFailed, drainTimedOut, muWriter,
                 readers, loopVars, tasks, sweeperPc>>

InitNew ==
  /\ InitCache
  /\ InitIdle
  /\ ifaceNames \in NameLists(MaxNames)
  /\ newPc = "call"
  /\ newErr = ""
  /\ interfaces = <<>>

NextNew == NewReflectorCall

SpecNew == InitNew /\ [][NextNew]_vars

\* -------------------------------------------------------------- Reflector

\* The interface name lists the running reflector is built from: three
\* distinct interfaces, two, and a list naming eth1 twice.
Configs ==
  { <<"eth1", "eth10", "wlan0">>,
    <<"eth1", "wlan0">>,
    <<"eth1", "eth1", "wlan0">> }

Loops == 1..Len(interfaces)

MapPut(f, k, v) == [x \in DOMAIN f \cup {k} |-> IF x = k THEN v ELSE f[x]]

\* shutdownWg: the reflection tasks scheduled and not yet returned.
InFlight == {t \in 1..Len(tasks) : tasks[t].pc # "done"}

\* wg: the receive loops and the sweep goroutine started and not yet returned.
LoopsRunning == {i \in Loops : loopPc[i] \notin {"idle", "done"}}

WgCount == Cardinality(LoopsRunning) + (IF sweeperPc = "run" THEN 1 ELSE 0)

\* State after NewReflector succeeded on one of the lists.
Init ==
  /\ InitCache
  /\ ifaceNames \in Configs
  /\ NewReflector(ifaceNames).ok
  /\ newPc = "ok"
  /\ newErr = ""
  /\ interfaces = NewReflector(ifaceNames).interfaces
  /\ cancelled = FALSE
  /\ conns = EmptyMap
  /\ sock = EmptyMap
  /\ mainPc = "constructed"
  /\ joinIdx = 1
  /\ stopCalls = 0
  /\ startFailed = FALSE
  /\ drainTimedOut = FALSE
  /\ muWriter = FALSE
  /\ readers = {}
  /\ loopPc = [i \in 1..Len(ifaceNames) |-> "idle"]
  /\ loopConn = [i \in 1..Len(ifaceNames) |-> 0]
  /\ loopBuf = [i \in 1..Len(ifaceNames) |-> <<>>]
  /\ received = 0
  /\ fresh = 0
  /\ faults = 0
  /\ tasks = <<>>
  /\ sweeperPc = "idle"

\* ------------------------------------------------------------------ Start

\* What joinMulticast can do: return a socket, fail in ListenMulticastUDP,
\* or fail in SetReadBuffer after closing the socket it had opened.
JoinOutcomes == {"ok", "listen failed", "buffer failed"}

\* Start, one iteration of its join loop: joinMulticast on the next
\* interface, then r.conns[iface.Name] = conn, or on an error the call of
\* r.Stop().
StartJoin ==
  /\ mainPc = "constructed"
  /\ joinIdx <= Len(interfaces)
  /\ \E o \in JoinOutcomes :
       LET name == interfaces[joinIdx]
       IN  CASE o = "ok" ->
                  /\ sock' = MapPut(sock, joinIdx,
                                    [iface |-> name, open |-> TRUE, closes |-> 0])
                  /\ conns' = MapPut(conns, name, joinIdx)
                  /\ joinIdx' = joinIdx + 1
                  /\ UNCHANGED <<mainPc, startFailed>>
             [] o = "listen failed" ->
                  /\ startFailed' = TRUE
                  /\ mainPc' = "stop"
                  /\ UNCHANGED <<sock, conns, joinIdx>>
             [] o = "buffer failed" ->
                  /\ sock' = MapPut(sock, joinIdx,
                                    [iface |-> name, open |-> FALSE, closes |-> 1])
                  /\ startFailed' = TRUE
                  /\ mainPc' = "stop"
                  /\ UNCHANGED <<conns, joinIdx>>
  /\ UNCHANGED <<dedupVars, newVars, cancelled, stopCalls, drainTimedOut,
                 muWriter, readers, loopVars, tasks, sweeperPc>>

\* Start after the join loop: the sweep goroutine and one receive loop per
\* entry of r.interfaces are started.
StartSpawn ==
  /\ mainPc = "constructed"
  /\ joinIdx > Len(interfaces)
  /\ sweeperPc' = "run"
  /\ loopPc' = [i \in Loops |-> "lookup"]
  /\ mainPc' = "running"
  /\ UNCHANGED <<dedupVars, newVars, cancelled, conns, sock, joinIdx,
                 stopCalls, startFailed, drainTimedOut, muWriter,
                 readers, loopConn, loopBuf, received, fresh, faults, tasks>>

\* ------------------------------------------------------------------- Stop

\* Mutant of StopCancel: Stop is entered without calling r.cancel().
StopNoCancel ==
  /\ mainPc \in {"stop", "running"}
  /\ stopCalls' = stopCalls + 1
  /\ mainPc' = "drain"
  /\ UNCHANGED <<dedupVars, newVars, cancelled, conns, sock, joinIdx,
                 startFailed, drainTimedOut, muWriter, readers, loopVars,
                 tasks, sweeperPc>>

\* Stop is entered (from Start on a join error, or by the caller of a
\* running reflector) and calls r.cancel().
StopCancel ==
  /\ mainPc \in {"stop", "running"}
  /\ cancelled' = TRUE
  /\ stopCalls' = stopCalls + 1
  /\ mainPc' = "drain"
  /\ UNCHANGED <<dedupVars, newVars, conns, sock, joinIdx, startFailed,
                 drainTimedOut, muWriter, readers, loopVars, tasks, sweeperPc>>

\* The first select of Stop: shutdownWg.Wait() returned.
StopDrainDone ==
  /\ mainPc = "drain"
  /\ InFlight = {}
  /\ mainPc' = "lock"
  /\ UNCHANGED <<dedupVars, newVars, cancelled, conns, sock, joinIdx,
                 stopCalls, startFailed, drainTimedOut, muWriter, readers,
                 loopVars, tasks, sweeperPc>>

\* The first select of Stop: time.After(shutdownTimeout) fired.
StopDrainTimeout ==
  /\ mainPc = "drain"
  /\ drainTimedOut' = TRUE
  /\ mainPc' = "lock"
  /\ UNCHANGED <<dedupVars, newVars, cancelled, conns, sock, joinIdx,
                 stopCalls, startFailed, muWriter, readers, loopVars, tasks,
                 sweeperPc>>

\* Mutant of StopLock: the lock is granted whoever holds it shared.
StopLockNoWait ==
  /\ mainPc = "lock"
  /\ ~muWriter
  /\ muWriter' = TRUE
  /\ mainPc' = "close"
  /\ UNCHANGED <<dedupVars, newVars, cancelled, conns, sock, joinIdx,
                 stopCalls, startFailed, drainTimedOut, readers, loopVars,
                 tasks, sweeperPc>>

\* r.mu.Lock(): granted when no reflection task holds the lock shared.
StopLock ==
  /\ mainPc = "lock"
  /\ ~muWriter
  /\ readers = {}
  /\ muWriter' = TRUE
  /\ mainPc' = "close"
  /\ UNCHANGED <<dedupVars, newVars, cancelled, conns, sock, joinIdx,
                 stopCalls, startFailed, drainTimedOut, readers, loopVars,
                 tasks, sweeperPc>>

\* The sockets after conn.Close() on every socket of the mapping c.
CloseAll(sk, c) ==
  [id \in DOMAIN sk |->
     IF \E n \in DOMAIN c : c[n] = id
     THEN [sk[id] EXCEPT !.open = FALSE, !.closes = @ + 1]
     ELSE sk[id]]

\* Under the lock: every socket of r.conns is closed, r.conns is replaced
\* by an empty map, r.mu.Unlock().  (drainTimedOut has served once the
\* sockets are closed and is cleared.)
StopClose ==
  /\ mainPc = "close"
  /\ sock' = CloseAll(sock, conns)
  /\ conns' = EmptyMap
  /\ muWriter' = FALSE
  /\ drainTimedOut' = FALSE
  /\ mainPc' = "waitloops"
  /\ UNCHANGED <<dedupVars, newVars, cancelled, joinIdx, stopCalls,
                 startFailed, readers, loopVars, tasks, sweeperPc>>

\* The second select of Stop: r.wg.Wait() returned; Stop returns.
StopWaitDone ==
  /\ mainPc = "waitloops"
  /\ WgCount = 0
  /\ mainPc' = "stopped"
  /\ UNCHANGED <<dedupVars, newVars, cancelled, conns, sock, joinIdx,
                 stopCalls, startFailed, drainTimedOut, muWriter, readers,
                 loopVars, tasks, sweeperPc>>

\* The second select of Stop: the timeout fired; Stop returns.
StopWaitTimeout ==
  /\ mainPc = "waitloops"
  /\ mainPc' = "stopped"
  /\ UNCHANGED <<dedupVars, newVars, cancelled, conns, sock, joinIdx,
                 stopCalls, startFailed, drainTimedOut, muWriter, readers,
                 loopVars, tasks, sweeperPc>>

\* Stop called once more after it returned, as one step: r.cancel() again,
\* the first select (by the wait or the timeout), the lock (no task can
\* hold it in its fan-out once r.ctx is done and Stop has had the lock),
\* every socket still in r.conns closed, the second select.
StopAgain ==
  /\ mainPc = "stopped"
  /\ stopCalls < MaxStops
  /\ ~muWriter
  /\ readers = {}
  /\ cancelled' = TRUE
  /\ stopCalls' = stopCalls + 1
  /\ sock' = CloseAll(sock, conns)
  /\ conns' = EmptyMap
  /\ UNCHANGED <<dedupVars, newVars, mainPc, joinIdx, startFailed,
                 drainTimedOut, muWriter, readers, loopVars, tasks, sweeperPc>>

\* ------------------------------------------------------------ receiveLoop
\* A receive loop stands at "lookup" (started), "read" (inside ReadFromUDP),
\* "dedup" (a packet passed the check after the read) or "done" (returned).
\* The two selects on r.ctx.Done() read one flag and change nothing but the
\* loop's own position, so each is taken together with the step before it.

\* Mutant of LoopTop: the loop returns at its top whatever r.ctx says.
LoopTopReturns(isCancelled) == "done"

\* The select at the loop top: return if r.ctx is done, else go on to read.
LoopTop(isCancelled) == IF isCancelled THEN "done" ELSE "read"

\* The select after a read of n > 0 bytes: the packet is dropped and the
\* loop returns if r.ctx is done.
PostRead(isCancelled) == IF isCancelled THEN "done" ELSE "dedup"

\* receiveLoop entry: the socket of iface.Name is looked up under the shared
\* lock; the loop returns if there is none, else reaches the loop top.
LoopLookup(i) ==
  /\ loopPc[i] = "lookup"
  /\ ~muWriter
  /\ LET name == interfaces[i]
         conn == IF name \in DOMAIN conns THEN conns[name] ELSE 0
     IN  /\ loopConn' = [loopConn EXCEPT ![i] = conn]
         /\ loopPc' = [loopPc EXCEPT ![i] =
                         IF conn = 0 THEN "done" ELSE LoopTop(cancelled)]
  /\ UNCHANGED <<dedupVars, newVars, lifeVars, loopBuf, received, fresh,
                 faults, tasks, sweeperPc>>

\* What conn.ReadFromUDP can return on an open socket besides a packet.
ReadErrors == {"timeout", "empty", "fatal"}

\* SetReadDeadline and ReadFromUDP return: a packet of n > 0 bytes in buf
\* (then the select after the read), an empty datagram or a timeout
\* (continue: the loop top), net.ErrClosed on a closed socket or another
\* error (return).
LoopRead(i) ==
  /\ loopPc[i] = "read"
  /\ IF ~sock[loopConn[i]].open
     THEN /\ loopPc' = [loopPc EXCEPT ![i] = "done"]
          /\ UNCHANGED <<loopBuf, received, faults>>
     ELSE \/ \E p \in Payloads :
               /\ received < MaxPackets
               /\ loopBuf' = [loopBuf EXCEPT ![i] = p]
               /\ received' = received + 1
               /\ loopPc' = [loopPc EXCEPT ![i] = PostRead(cancelled)]
               /\ UNCHANGED faults
          \/ \E e \in ReadErrors :
               /\ e = "fatal" => faults < MaxFaults
               /\ loopPc' = [loopPc EXCEPT ![i] =
                               IF e = "fatal" THEN "done" ELSE LoopTop(cancelled)]
               /\ faults' = IF e = "fatal" THEN faults + 1 ELSE faults
               /\ UNCHANGED <<loopBuf, received>>
  /\ UNCHANGED <<dedupVars, newVars, lifeVars, loopConn, fresh, tasks,
                 sweeperPc>>

\* The task r.shutdownWg.Go starts for reflect(srcIface, packet); late records
\* whether r.ctx was done when it was scheduled.
NewTask(srcIface, packet, i) ==
  [src |-> srcIface, pkt |-> packet, loop |-> i, pc |-> "spawned",
   guard |-> "none", todo |-> {}, log |-> {}, nwrites |-> 0,
   aborted |-> FALSE, afterFail |-> FALSE, late |-> cancelled]

\* Whether a packet is handed to a reflection task, given isDuplicate's answer.
Scheduled(dup) == ~dup

\* The rest of the iteration: packet is copied out of buf, r.dedup.isDuplicate
\* is asked, a packet that is not a duplicate is handed to a new reflection
\* task registered with shutdownWg, and the loop is back at its top.
LoopDedup(i) ==
  /\ loopPc[i] = "dedup"
  /\ LET name   == interfaces[i]
         packet == loopBuf[i]
         dup    == isDuplicate(entries, name, packet, now)
     IN  /\ entries' = isDuplicateEntries(entries, name, packet, now)
         /\ fresh' = IF dup THEN fresh ELSE fresh + 1
         /\ tasks' = IF Scheduled(dup)
                     THEN Append(tasks, NewTask(name, packet, i))
                     ELSE tasks
  /\ loopPc' = [loopPc EXCEPT ![i] = LoopTop(cancelled)]
  /\ UNCHANGED <<now, ncalls, lastCall, window, sweepVars, newVars, lifeVars,
                 loopConn,
                 loopBuf, received, faults, sweeperPc>>

\* ---------------------------------------------------------------- reflect

\* Mutant of Destinations: the ingress interface is not skipped.
DestinationsAll(c, srcIface) == DOMAIN c

\* The interfaces the fan-out writes to: every key of r.conns except the
\* ingress interface.
Destinations(c, srcIface) == {n \in DOMAIN c : n # srcIface}

\* Mutant of AbortsOnError: any write error ends the fan-out.
AbortsAlways(isCancelled) == TRUE

\* Whether reflect returns after a failed write: only if r.ctx is done.
AbortsOnError(isCancelled) == isCancelled

\* Mutant of TaskEnter: the select on r.ctx.Done() at entry is missing.
TaskEnterNoGuard(t) ==
  /\ tasks[t].pc = "spawned"
  /\ ~muWriter
  /\ LET d == Destinations(conns, tasks[t].src)
         g == IF cancelled THEN "cancelled" ELSE "passed"
     IN  IF d = {}
         THEN /\ tasks' = [tasks EXCEPT ![t].pc = "done", ![t].guard = g]
              /\ UNCHANGED readers
         ELSE /\ tasks' = [tasks EXCEPT ![t].pc = "fanout", ![t].guard = g,
                                        ![t].todo = d]
              /\ readers' = readers \cup {t}
  /\ UNCHANGED <<dedupVars, newVars, cancelled, conns, sock, mainPc, joinIdx,
                 stopCalls, startFailed, drainTimedOut, muWriter,
                 loopVars, sweeperPc>>

\* reflect entry: r.mu.RLock(), then the select on r.ctx.Done(); the lock is
\* released at once if the task returns here.
TaskEnter(t) ==
  /\ tasks[t].pc = "spawned"
  /\ ~muWriter
  /\ LET d == Destinations(conns, tasks[t].src)
     IN  IF cancelled
         THEN /\ tasks' = [tasks EXCEPT ![t].pc = "done",
                                        ![t].guard = "cancelled"]
              /\ UNCHANGED readers
         ELSE IF d = {}
         THEN /\ tasks' = [tasks EXCEPT ![t].pc = "done",
                                        ![t].guard = "passed"]
              /\ UNCHANGED readers
         ELSE /\ tasks' = [tasks EXCEPT ![t].pc = "fanout",
                                        ![t].guard = "passed",
                                        ![t].todo = d]
              /\ readers' = readers \cup {t}
  /\ UNCHANGED <<dedupVars, newVars, cancelled, conns, sock, mainPc, joinIdx,
                 stopCalls, startFailed, drainTimedOut, muWriter,
                 loopVars, sweeperPc>>

\* Mutant of PacketWritten: the task holds buf[:n] itself, not a copy.
PacketAliased(task, bufs) == bufs[task.loop]

\* The bytes reflect hands to WriteToUDP: packet, the copy receiveLoop made
\* of buf[:n] before scheduling the task; bufs are the loops' read buffers.
PacketWritten(task, bufs) == task.pkt

\* One iteration of the fan-out, in any order of the map: WriteToUDP(packet,
\* dstAddr) on the socket of destination d succeeds or fails (it fails on a
\* closed socket); after a failure the task returns if r.ctx is done; it
\* returns, releasing the lock, after the last destination.  log holds the
\* writes made (reused: the loop's read buffer held other bytes by then),
\* nwrites their number, afterFail whether a write was made after an
\* earlier one of the task had failed.
TaskWrite(t, d, ok) ==
  /\ tasks[t].pc = "fanout"
  /\ d \in tasks[t].todo
  /\ ok => sock[conns[d]].open
  /\ (~ok /\ sock[conns[d]].open) => faults < MaxFaults
  /\ LET entry == [dst |-> d, sock |-> conns[d], ok |-> ok,
                   pkt |-> PacketWritten(tasks[t], loopBuf),
                   open |-> sock[conns[d]].open,
                   reused |-> loopBuf[tasks[t].loop] # tasks[t].pkt]
         abort == ~ok /\ AbortsOnError(cancelled)
         rest  == tasks[t].todo \ {d}
         last  == abort \/ rest = {}
     IN  /\ tasks' = [tasks EXCEPT ![t].log = @ \cup {entry},
                                   ![t].nwrites = @ + 1,
                                   ![t].todo = rest,
                                   ![t].aborted = abort,
                                   ![t].afterFail =
                                      @ \/ \E e \in tasks[t].log : ~e.ok,
                                   ![t].pc = IF last THEN "done" ELSE "fanout"]
         /\ readers' = IF last THEN readers \ {t} ELSE readers
         /\ faults' = IF ~ok /\ entry.open THEN faults + 1 ELSE faults
  /\ UNCHANGED <<dedupVars, newVars, cancelled, conns, sock, mainPc, joinIdx,
                 stopCalls, startFailed, drainTimedOut, muWriter,
                 loopPc, loopConn, loopBuf, received, fresh, sweeperPc>>

\* ------------------------------------------------------------- runCleanup

\* runCleanup: the ticker fired and c.cleanup() runs.
SweeperTick ==
  /\ sweeperPc = "run"
  /\ entries' = cleanup(entries, now)
  /\ UNCHANGED <<now, ncalls, lastCall, window, sweepVars, newVars, runVars>>

\* runCleanup: ctx.Done() is selected and the goroutine returns.
SweeperExit ==
  /\ sweeperPc = "run"
  /\ cancelled
  /\ sweeperPc' = "done"
  /\ UNCHANGED <<dedupVars, newVars, lifeVars, loopVars, tasks>>

Next ==
  \/ StartJoin
  \/ StartSpawn
  \/ StopCancel
  \/ StopDrainDone
  \/ StopDrainTimeout
  \/ StopLock
  \/ StopClose
  \/ StopWaitDone
  \/ StopWaitTimeout
  \/ StopAgain
  \/ \E i \in Loops : LoopLookup(i)
  \/ \E i \in Loops : LoopRead(i)
  \/ \E i \in Loops : LoopDedup(i)
  \/ \E t \in 1..Len(tasks) : TaskEnter(t)
  \/ \E t \in 1..Len(tasks), d \in UpNames, ok \in BOOLEAN : TaskWrite(t, d, ok)
  \/ SweeperTick
  \/ SweeperExit

\* The reflector from Start to the return of Stop.  The clock stands still
\* here: the passing of time over the dedup window is explored in SpecDedup.
Spec == Init /\ [][Next]_vars

\* The scheduling the termination of Stop rests on: the caller's goroutine
\* and every started goroutine keep being scheduled, time.After fires, and
\* every timed read and every socket write returns.  Stop itself is called
\* at some time.
Fairness ==
  /\ WF_vars(StopCancel)
  /\ WF_vars(StopDrainTimeout)
  /\ WF_vars(StopLock)
  /\ WF_vars(StopClose)
  /\ WF_vars(StopWaitTimeout)
  /\ WF_vars(SweeperExit)
  /\ \A i \in 1..MaxNames :
       /\ WF_vars(i \in Loops /\ LoopLookup(i))
       /\ WF_vars(i \in Loops /\ LoopRead(i))
       /\ WF_vars(i \in Loops /\ LoopDedup(i))
  /\ \A t \in 1..MaxPackets :
       /\ WF_vars(t \in 1..Len(tasks) /\ TaskEnter(t))
       /\ WF_vars(t \in 1..Len(tasks)
                    /\ \E d \in UpNames, ok \in BOOLEAN : TaskWrite(t, d, ok))

\* The reflector between eth1 and wlan0.
InitLive == Init /\ ifaceNames = <<"eth1", "wlan0">>

\* The reflector between two interfaces under fair scheduling.
SpecLive == InitLive /\ [][Next]_vars /\ Fairness

\* ------------------------------------------------- isDuplicate and cleanup
\* isDuplicate and cleanup in their two steps: time.Now() is read first,
\* c.mu is taken afterwards.  Each interface has one receive loop, hence at
\* most one call waiting for the lock per interface.  unswept follows the
\* same calls with the same timestamps in the same order, without sweeps.

\* isDuplicate(srcIface, packet) up to now := time.Now().
IsDuplicateStamp(srcIface, packet) ==
  /\ ncalls < MaxCalls
  /\ srcIface \notin DOMAIN stamped
  /\ stamped' = MapPut(stamped, srcIface, [pkt |-> packet, at |-> now])
  /\ ncalls' = ncalls + 1
  /\ UNCHANGED <<entries, now, lastCall, window, sweepAt, unswept, verdict,
                 newVars, runVars>>

\* The rest of the call, under c.mu, with the timestamp read before.
IsDuplicateLocked(srcIface) ==
  /\ srcIface \in DOMAIN stamped
  /\ LET c == stamped[srcIface]
     IN  /\ entries' = isDuplicateEntries(entries, srcIface, c.pkt, c.at)
         /\ unswept' = isDuplicateEntries(unswept, srcIface, c.pkt, c.at)
         /\ verdict' =
              [result    |-> isDuplicate(entries, srcIface, c.pkt, c.at),
               reference |-> isDuplicate(unswept, srcIface, c.pkt, c.at)]
  /\ stamped' = [k \in DOMAIN stamped \ {srcIface} |-> stamped[k]]
  /\ UNCHANGED <<now, ncalls, lastCall, window, sweepAt, newVars, runVars>>

\* cleanup up to now := time.Now().
CleanupStamp ==
  /\ sweepAt = <<>>
  /\ sweepAt' = <<now>>
  /\ UNCHANGED <<entries, now, ncalls, lastCall, window, stamped, unswept,
                 verdict, newVars, runVars>>

\* The rest of cleanup, under c.mu.
CleanupLocked ==
  /\ sweepAt # <<>>
  /\ entries' = cleanup(entries, sweepAt[1])
  /\ sweepAt' = <<>>
  /\ UNCHANGED <<now, ncalls, lastCall, window, stamped, unswept, verdict,
                 newVars, runVars>>

NextSweep ==
  \/ \E i \in UpNames, p \in Payloads : IsDuplicateStamp(i, p)
  \/ \E i \in UpNames : IsDuplicateLocked(i)
  \/ CleanupStamp
  \/ CleanupLocked
  \/ Tick

SpecSweep == InitDedup /\ [][NextSweep]_vars

\* ------------------------------------------------- properties: dedup cache

\* C2 (as claimed): the first isDuplicate(I, P) returns false and records
\* call time + window; a later call on the same (I, P) before that expiry
\* returns true and leaves the expiry alone; a call strictly after it
\* returns false and records a new window.
C2_WindowContract ==
  ncalls > 0 =>
    /\ lastCall.first =>
         ~lastCall.result /\ lastCall.stored = lastCall.at + dedupWindow
    /\ (~lastCall.first /\ lastCall.at < lastCall.prior) =>
         lastCall.result /\ lastCall.stored = lastCall.prior
    /\ (~lastCall.first /\ lastCall.at > lastCall.prior) =>
         ~lastCall.result /\ lastCall.stored = lastCall.at + dedupWindow

\* C3 (as claimed): isDuplicate(I, P) returns true only if an earlier call
\* on exactly the same interface name and payload recorded a window that
\* is still running.
C3_OnlySamePairSuppresses ==
  (ncalls > 0 /\ lastCall.result) =>
    ~lastCall.first /\ lastCall.at < lastCall.prior

\* C4: for distinct interfaces i1, i2 and every payload p, isDuplicate(i2, p)
\* returns the same value, now or at any later time, whether or not
\* isDuplicate(i1, p) is called first.
C4_InterfacesIndependent ==
  \A i1 \in UpNames, i2 \in UpNames, p \in Payloads, t \in now..MaxTime :
    i1 # i2 =>
      isDuplicate(isDuplicateEntries(entries, i1, p, now), i2, p, t)
        = isDuplicate(entries, i2, p, t)

\* C4's case: a payload is accepted as fresh on one interface while the
\* window of the same payload on another interface is running.
C4_Witness ==
  /\ ncalls >= 2
  /\ ~lastCall.result
  /\ \E i1 \in UpNames \ {lastCall.iface} :
       /\ <<i1, lastCall.pkt>> \in DOMAIN window
       /\ lastCall.at < window[<<i1, lastCall.pkt>>]
       /\ Fingerprint(i1, lastCall.pkt) \in DOMAIN entries

\* ------------------------------------------------ properties: construction

\* A name NewReflector rejects: unknown, down, or without multicast.
InvalidName(name) ==
  \/ name \notin DOMAIN HostFlags
  \/ ~HostFlags[name].up
  \/ ~HostFlags[name].multicast

\* C9: construction fails, returns no reflector and opens no socket,
\* exactly for the lists with fewer than 2 names or with an invalid name;
\* it succeeds only when every listed name is valid.
C9_ConstructionValidates ==
  newPc # "call" =>
    /\ newPc = "failed" <=>
         \/ Len(ifaceNames) < 2
         \/ \E i \in 1..Len(ifaceNames) : InvalidName(ifaceNames[i])
    /\ newPc = "failed" =>
         /\ newErr # ""
         /\ interfaces = <<>>
         /\ mainPc = "none"
         /\ sock = EmptyMap /\ conns = EmptyMap
    /\ newPc = "ok" =>
         /\ newErr = ""
         /\ interfaces = ifaceNames
         /\ sock = EmptyMap /\ conns = EmptyMap

\* C9's case: a list of two or more names whose last name lacks multicast
\* (the earlier ones valid) has been rejected.
C9_Witness ==
  /\ newPc = "failed"
  /\ Len(ifaceNames) >= 2
  /\ \A i \in 1..(Len(ifaceNames) - 1) : ~InvalidName(ifaceNames[i])
  /\ ~HostFlags[ifaceNames[Len(ifaceNames)]].multicast
  /\ newErr = "does not support multicast"

\* ---------------------------------------------------- properties: fan-out

TaskIds == 1..Len(tasks)

\* The interfaces joined: the keys of r.conns.
Joined == DOMAIN conns

\* C1: while no shutdown has begun, every packet reported as not duplicate
\* has exactly one reflection task, and a task that has returned made
\* exactly one write of its packet on the socket of every joined interface
\* other than its ingress interface, and none on a socket of the ingress
\* interface.
C1_FanOutToAllOthers ==
  ~cancelled =>
    /\ Len(tasks) = fresh
    /\ \A t \in TaskIds :
         tasks[t].pc = "done" =>
           /\ {e.dst : e \in tasks[t].log} = Joined \ {tasks[t].src}
           /\ tasks[t].nwrites = Cardinality(Joined \ {tasks[t].src})
           /\ \A e \in tasks[t].log :
                /\ e.pkt = tasks[t].pkt
                /\ e.sock = conns[e.dst]
                /\ sock[e.sock].iface # tasks[t].src

\* C1's case: with three interfaces joined and no shutdown, the task of a
\* packet received on eth1 has returned after writing it to eth10 and wlan0.
C1_Witness ==
  /\ ~cancelled
  /\ mainPc = "running"
  /\ Joined = {"eth1", "eth10", "wlan0"}
  /\ \E t \in TaskIds :
       /\ tasks[t].pc = "done"
       /\ tasks[t].src = "eth1"
       /\ {e.dst : e \in tasks[t].log} = {"eth10", "wlan0"}
       /\ \A e \in tasks[t].log : e.ok

\* C7 (as claimed): in a fan-out that passed its entry guard, a failed
\* write never leaves another destination unattempted, in any interleaving
\* with Stop.
C7_FailureNeverSkips ==
  \A t \in TaskIds :
    (tasks[t].pc = "done" /\ tasks[t].guard = "passed") => tasks[t].todo = {}

\* C7 (amended): a fan-out that passed its entry guard leaves a destination
\* unattempted only by returning after a failed write at a moment when the
\* cancellation signal has fired; while the signal has not fired a failed
\* write never ends the fan-out.
C7_FailureSkipsOnlyOnCancel ==
  \A t \in TaskIds :
    /\ (tasks[t].pc = "done" /\ tasks[t].guard = "passed"
          /\ tasks[t].todo # {}) =>
         /\ cancelled
         /\ tasks[t].aborted
         /\ \E e \in tasks[t].log : ~e.ok
    /\ tasks[t].aborted => cancelled

\* C7's case: a task wrote to its second destination after the write to
\* its first destination had failed, and returned with both attempted.
C7_Witness ==
  \E t \in TaskIds :
    /\ tasks[t].pc = "done"
    /\ tasks[t].afterFail
    /\ tasks[t].nwrites = 2
    /\ tasks[t].todo = {}
    /\ \E e \in tasks[t].log : ~e.ok /\ e.open

\* ---------------------------------------------------- properties: shutdown

\* C5 (as claimed): no reflection task is scheduled after the cancellation
\* signal has fired.
C5_NoTaskScheduledAfterCancel ==
  \A t \in TaskIds : ~tasks[t].late

\* C6 (as claimed): once the drain timeout has fired, Stop does not wait on
\* a reflection task before closing the sockets: when it asks for the
\* exclusive lock no fan-out holds the lock.
C6_NoWaitAfterDrainTimeout ==
  (mainPc = "lock" /\ drainTimedOut) => readers = {}

\* C8 (as claimed): when Start returns its error, every socket opened in
\* the attempt is closed, the mapping is empty, and no receive loop and no
\* sweep goroutine has been started.
C8_StartAllOrNothing ==
  (startFailed /\ mainPc = "stopped") =>
    /\ \A id \in DOMAIN sock : ~sock[id].open
    /\ conns = EmptyMap
    /\ \A i \in Loops : loopPc[i] = "idle"
    /\ sweeperPc = "idle"

\* C10 (as claimed): after Stop has returned, once or more than once,
\* every socket opened by Start is closed and has been closed exactly once.
C10_ClosedExactlyOnce ==
  mainPc = "stopped" =>
    \A id \in DOMAIN sock : ~sock[id].open /\ sock[id].closes = 1

\* ------------------------------------------------- properties: termination

AllExited ==
  /\ \A i \in Loops : loopPc[i] = "done"
  /\ sweeperPc = "done"

\* C11: once Stop is invoked it returns; invoked on a running reflector,
\* every receive loop and the sweep goroutine exit; and a goroutine that
\* has exited never runs again.
C11_StopTerminates ==
  /\ (mainPc = "drain") ~> (mainPc = "stopped")
  /\ (mainPc = "drain" /\ ~startFailed) ~> AllExited
  /\ [][/\ \A i \in Loops : loopPc[i] = "done" => loopPc'[i] = "done"
        /\ sweeperPc = "done" => sweeperPc' = "done"]_vars

\* C11's case: Stop was invoked while a reflection task was in its fan-out
\* (the task returned at a failed write after the signal), Stop has
\* returned, and every goroutine has exited.
C11_Witness ==
  /\ mainPc = "stopped"
  /\ ~startFailed
  /\ AllExited
  /\ \E t \in TaskIds : tasks[t].guard = "passed" /\ tasks[t].aborted

\* ----------------------------------------------- properties: construction

\* C12 (as claimed): a reflector that was constructed has at least two
\* distinct interfaces.
C12_TwoDistinctInterfaces ==
  newPc = "ok" =>
    Cardinality({interfaces[i] : i \in 1..Len(interfaces)}) >= 2

\* ------------------------------------------- properties: shutdown ordering

\* C13 (as claimed): Stop closes sockets only after the cancellation signal
\* and only with the in-flight tracker empty or the drain timeout fired, so
\* that no reflection task is registered or running when sockets are closed
\* without the timeout; and it waits for the receive loops only after every
\* socket has been closed.
C13_ShutdownOrdering ==
  /\ (mainPc = "close" /\ conns # EmptyMap) =>
       /\ cancelled
       /\ drainTimedOut \/ InFlight = {}
  /\ mainPc = "waitloops" =>
       /\ conns = EmptyMap
       /\ \A id \in DOMAIN sock : ~sock[id].open

\* C14: a reflection task that found r.ctx done at its entry guard has
\* returned without any socket write.
C14_CancelledEntryNoWrite ==
  \A t \in TaskIds :
    tasks[t].guard = "cancelled" =>
      /\ tasks[t].pc = "done"
      /\ tasks[t].nwrites = 0
      /\ tasks[t].log = {}

\* C14's case: a task found r.ctx done at its entry guard while the open
\* sockets of two other interfaces were still in r.conns.
C14_Witness ==
  \E t \in TaskIds :
    /\ tasks[t].guard = "cancelled"
    /\ Cardinality(Joined \ {tasks[t].src}) = 2
    /\ \A n \in Joined : sock[conns[n]].open

\* ------------------------------------------------ properties: map locking

\* C15 (as claimed): every step that changes r.conns is taken holding r.mu
\* exclusively.
C15_MutationsUnderLock ==
  [][conns' # conns => muWriter]_vars

\* Nothing that reads r.conns has been started: no receive loop, no
\* reflection task.
NoReaderStarted ==
  /\ \A i \in Loops : loopPc[i] = "idle"
  /\ tasks = <<>>

\* C15 (amended): r.conns is changed either by Stop holding r.mu
\* exclusively or by Start, without the lock, before any receive loop or
\* reflection task exists; no reflection task holds the lock shared while it
\* is held exclusively or while r.conns changes.
C15_NoReadDuringMutation ==
  /\ [](muWriter => readers = {})
  /\ [][conns' # conns =>
          /\ readers = {}
          /\ muWriter \/ (mainPc = "constructed" /\ NoReaderStarted)]_vars

\* C15's case: Stop holds r.mu exclusively and is about to close and clear
\* a non-empty r.conns while a reflection task waits for the shared lock.
C15_Witness ==
  /\ mainPc = "close"
  /\ muWriter
  /\ conns # EmptyMap
  /\ \E t \in TaskIds : tasks[t].pc = "spawned"

\* ------------------------------------------------ properties: read errors

\* The receive loops that have returned.
Exited == {i \in Loops : loopPc[i] = "done"}

\* C16: while the reflector runs and no shutdown has begun, a receive loop
\* has returned only through a fatal read error of its own (never through a
\* timeout), every interface is still joined with its socket open, and the
\* tasks of the packets received have written to every other joined
\* interface; only Stop fires the cancellation signal; a loop that has
\* returned stays returned.
C16_FatalReadIsLocal ==
  /\ []((mainPc = "running" /\ ~cancelled) =>
          /\ Cardinality(Exited) <= faults
          /\ \A i \in Loops :
               /\ interfaces[i] \in Joined
               /\ sock[conns[interfaces[i]]].open
          /\ \A t \in TaskIds :
               tasks[t].pc = "done" =>
                 {e.dst : e \in tasks[t].log} = Joined \ {tasks[t].src})
  /\ [][/\ (cancelled' /\ ~cancelled) => mainPc' = "drain"
        /\ \A i \in Loops : loopPc[i] = "done" => loopPc'[i] = "done"]_vars

\* C16's case: no shutdown has begun, the eth1 loop has returned on a fatal
\* read error, the wlan0 loop is still reading, and the task of a packet
\* received on wlan0 has written it to the socket of eth1.
C16_Witness ==
  /\ mainPc = "running"
  /\ ~cancelled
  /\ \E i, j \in Loops :
       /\ interfaces[i] = "eth1"
       /\ interfaces[j] = "wlan0"
       /\ loopPc[i] = "done"
       /\ loopPc[j] = "read"
       /\ \E t \in TaskIds :
            /\ tasks[t].loop = j
            /\ tasks[t].pc = "done"
            /\ \E e \in tasks[t].log : e.dst = "eth1" /\ e.ok

\* ------------------------------------------------------ properties: sweep

\* C17: a sweep removes exactly the entries whose expiry lies strictly
\* before the sweep time, whether or not they were looked up since, and
\* leaves every other entry as it was.  (A step that makes no call and
\* leaves the clock alone is a sweep.)
C17_SweepRemovesExpired ==
  [][(ncalls' = ncalls /\ now' = now) =>
       /\ DOMAIN entries' = {k \in DOMAIN entries : ~(entries[k] < now)}
       /\ \A k \in DOMAIN entries' : entries'[k] = entries[k]]_vars

\* C17's case: the entry the last call recorded or found is gone although
\* no call was made since: a sweep removed it after its expiry.
C17_Witness ==
  /\ ncalls > 0
  /\ Fingerprint(lastCall.iface, lastCall.pkt) \notin DOMAIN entries
  /\ lastCall.stored < now

\* ---------------------------------------------- properties: closed sockets

\* C19: every reflection write was made on a socket that was open; a socket
\* is closed only while no reflection task holds the shared lock; and a
\* task that passed its entry guard after Stop's close phase found nothing
\* to write to.
C19_NoWriteOnClosedSocket ==
  /\ [](\A t \in TaskIds : \A e \in tasks[t].log : e.open)
  /\ [][(\E id \in DOMAIN sock :
           id \in DOMAIN sock' /\ sock[id].open /\ ~sock'[id].open) =>
         readers = {}]_vars
  /\ [](\A t \in TaskIds :
         (tasks[t].pc = "fanout" /\ tasks[t].todo # {}) =>
           \A d \in tasks[t].todo :
             d \in Joined /\ sock[conns[d]].open)

\* C19's case: Stop has closed the sockets after a reflection task wrote to
\* them, and a task that entered afterwards made no write.
C19_Witness ==
  /\ mainPc \in {"waitloops", "stopped"}
  /\ \A id \in DOMAIN sock : ~sock[id].open
  /\ \E t \in TaskIds : tasks[t].log # {} /\ \A e \in tasks[t].log : e.open
  /\ \E t \in TaskIds : tasks[t].guard = "cancelled" /\ tasks[t].log = {}

\* ----------------------------------------------------- properties: payload

\* C18: every write of a reflection task carries the bytes received for the
\* task's packet, whatever the receive loop has read into its buffer since.
C18_PayloadUnchanged ==
  \A t \in TaskIds : \A e \in tasks[t].log : e.pkt = tasks[t].pkt

\* C18's case: a task wrote its packet after the receive loop that
\* scheduled it had read a later, different packet into its buffer.
C18_Witness ==
  \E t \in TaskIds : \E e \in tasks[t].log :
    /\ e.reused
    /\ e.ok
    /\ e.pkt = tasks[t].pkt
    /\ loopBuf[tasks[t].loop] # tasks[t].pkt

\* ----------------------------------------- properties: sweep transparency

\* C20 (as claimed): every isDuplicate call returns what it would return in
\* the same execution with all sweeps removed.
C20_SweepTransparent ==
  verdict.result = verdict.reference

====
